---- MODULE Spec2Model ----
(***************************************************************************)
(* Model of drifterdata.drifter_integration.DrifterDataIntegrator: the     *)
(* three loaded source tables, the position interpolator, the timeline     *)
(* merger, the motion deriver and the integration summary.                 *)
(*                                                                         *)
(* Timestamps are whole seconds.  Coordinates are integers in a fixed-point*)
(* unit chosen so that every quotient the bounded inputs produce is exact; *)
(* NaN and the infinities are separate values.  A table is a sequence of   *)
(* rows, a row is a function from column names to values.                  *)
(***************************************************************************)
EXTENDS Integers, Sequences, FiniteSets, TLC

VARIABLES gpx_data, fluorometer_data, aquatroll_data, integrated_data, ret,
          caller_df, quicksort_ties,
          positions, running, last_collection, jobs, pc, clock, signalled

\* the state of the integrator, its caller and its sort
integrator_vars == <<gpx_data, fluorometer_data, aquatroll_data,
                     integrated_data, caller_df, quicksort_ties>>

\* the state of the SPOT collector, its database and its environment
collector_vars == <<positions, running, last_collection, jobs, pc, clock,
                    signalled>>

vars == <<gpx_data, fluorometer_data, aquatroll_data, integrated_data, ret,
          caller_df, quicksort_ties, collector_vars>>

----------------------------------------------------------------------------
(* Bounds of the exploration *)

\* timestamps of the sources are whole ticks, from 0 to MaxTick ticks
MaxTick == 2
\* largest number of rows of a loaded GPS track / fluorometer / AquaTROLL table
MaxTrack == 2
MaxFluoro == 2
MaxAqua == 1
\* largest number of rows of a frame handed to the motion deriver on its own
MaxFrame == 3
\* largest number of timestamps handed to interpolate_positions in one call
MaxTargets == 2
\* SPOT positions are stamped with whole days, from 0 to MaxStamp
MaxStamp == 1
\* largest number of positions in one answer of the SPOT API
MaxApi == 2
\* the wall clock runs from one day to MaxClock days
MaxClock == 2

(* Program constants *)

\* "Within 30 seconds"
Tolerance == 30
\* interp1d(kind='cubic') is used from this many valid points on
CubicMinPoints == 4
SecondsPerHour == 3600
\* timedelta(days=1), in days
DayTicks == 1

\* Optional values: None, or Some(v)
None == [present |-> FALSE, rows |-> <<>>]
Some(v) == [present |-> TRUE, rows |-> v]

\* Floats: a finite value v is <<v>>, NaN is <<>>, the infinities are
\* <<1, 0>> and <<-1, 0>>
Fin(v) == <<v>>
NaN == <<>>
Inf == <<1, 0>>
NegInf == <<-1, 0>>

\* one tick is half the tolerance: a step of one tick stays within the
\* 30 second window, a step of two ticks is at its edge, outside it
TickSeconds == Tolerance \div 2
Times == {TickSeconds * k : k \in 0..MaxTick}
\* interpolation targets may lie beyond the last source timestamp: one tick
\* beyond is inside its 30 second window, three ticks beyond is outside it
TargetTimes ==
    {TickSeconds * k : k \in 0..(MaxTick + 1)}
    \cup {TickSeconds * (MaxTick + 3)}

\* (latitude, longitude) of a recorded fix; the last one is a fix without
\* usable coordinates
Fixes == {<<Fin(0), Fin(0)>>, <<Fin(12), Fin(24)>>, <<NaN, NaN>>}
TemperatureValues == {Fin(5)}
\* the coordinates an AquaTROLL export carries when it has position columns
SensorFix == <<Fin(77), Fin(88)>>
Methods == {"linear", "cubic"}

SeqsUpTo(S, n) == UNION {[1..k -> S] : k \in 0..n}

----------------------------------------------------------------------------
(* Generic helpers *)

Abs(x) == IF x < 0 THEN -x ELSE x

IsFinite(v) == Len(v) = 1
IsNull(v) == v = NaN
Val(v) == v[1]

RECURSIVE SortedSet(_)
\* sorted(set(...)): the elements of S in ascending order, each once
SortedSet(S) ==
    IF S = {} THEN <<>>
    ELSE LET m == CHOOSE x \in S : \A y \in S : x <= y
         IN <<m>> \o SortedSet(S \ {m})

RECURSIVE InsertByKey(_, _, _)
InsertByKey(sorted, r, key) ==
    IF sorted = <<>> THEN <<r>>
    ELSE IF Head(sorted)[key] <= r[key]
         THEN <<Head(sorted)>> \o InsertByKey(Tail(sorted), r, key)
         ELSE <<r>> \o sorted

RECURSIVE SortValues(_, _)
\* ascending by key, rows with equal keys keeping their order.  The track a
\* GPX file holds is drawn in every order, so the tied fixes reach the
\* interpolator in either order.
SortValues(rows, key) ==
    IF rows = <<>> THEN <<>>
    ELSE InsertByKey(SortValues(SubSeq(rows, 1, Len(rows) - 1), key),
                     rows[Len(rows)], key)

\* sort_values(key) with the default kind 'quicksort', which is not a stable
\* sort: rows with equal keys come out in the order they had, or not.  What
\* a build does with them is fixed; the two ways modelled are "kept" and
\* "reversed".
QuicksortTies == {"kept", "reversed"}

SortValuesQuick(rows, key, ties) ==
    IF ties = "kept" THEN SortValues(rows, key)
    ELSE SortValues([k \in 1..Len(rows) |-> rows[Len(rows) + 1 - k]], key)

ColumnValues(table, col) == {table[i][col] : i \in 1..Len(table)}

\* "x is not None and len(x) > 0"
Loaded(table) == table.present /\ Len(table.rows) > 0

----------------------------------------------------------------------------
(* Position interpolator: DrifterDataIntegrator.interpolate_positions *)

\* variant of AllMissing: the rows are returned flagged as recorded fixes
AllMissingAsFixes(target_times) ==
    [i \in 1..Len(target_times) |->
        [datetime |-> target_times[i], latitude |-> NaN, longitude |-> NaN,
         interpolated |-> FALSE]]

\* the frame returned when there is nothing to interpolate from
AllMissing(target_times) ==
    [i \in 1..Len(target_times) |->
        [datetime |-> target_times[i], latitude |-> NaN, longitude |-> NaN,
         interpolated |-> TRUE]]

\* valid_idx: a fix takes part in the interpolation when neither coordinate
\* is NaN
ValidFix(p) == ~(p.latitude = NaN \/ p.longitude = NaN)

\* variant of SlopeValue: the value of the lower fix is held over the segment
SlopeValueHeld(y_lo, dy, dx, off) == Fin(y_lo)

\* IEEE arithmetic of slope*(x_new - x_lo) + y_lo, slope = dy/dx
SlopeValue(y_lo, dy, dx, off) ==
    IF dx = 0
    THEN IF dy = 0 \/ off = 0 THEN NaN
         ELSE IF (dy > 0) = (off > 0) THEN Inf ELSE NegInf
    ELSE Fin(y_lo + ((dy * off) \div dx))

\* scipy interp1d(kind='linear', bounds_error=False,
\* fill_value='extrapolate') on the sorted axis xs with values ys:
\* searchsorted, clipped to 1..n-1, the segment below it, its line.
LinearEval(xs, ys, t) ==
    LET n == Len(xs)
        found == Cardinality({i \in 1..n : xs[i] < t})
        clipped == IF n - 1 < 1 THEN n - 1
                   ELSE IF found < 1 THEN 1
                   ELSE IF found > n - 1 THEN n - 1 ELSE found
        hi == clipped + 1
        lo == IF clipped = 0 THEN n ELSE clipped
    IN SlopeValue(ys[lo], ys[hi] - ys[lo], xs[hi] - xs[lo], t - xs[lo])

\* np.interp: piecewise linear, held constant outside the axis
NpInterp(xs, ys, t) ==
    LET n == Len(xs)
    IN IF t <= xs[1] THEN Fin(ys[1])
       ELSE IF t >= xs[n] THEN Fin(ys[n])
       ELSE LET lo == CHOOSE i \in 1..(n - 1) : xs[i] <= t /\ t < xs[i + 1]
            IN Fin(ys[lo] + (((ys[lo + 1] - ys[lo]) * (t - xs[lo]))
                             \div (xs[lo + 1] - xs[lo])))

\* interp1d(kind='cubic'): the spline passes through the fixes; between
\* them its value is left uninterpreted (the triple <<t, 0, 0>>).  A
\* repeated timestamp makes the spline construction raise, and the except
\* branch uses np.interp.
CubicEval(xs, ys, t) ==
    IF \E i, j \in 1..Len(xs) : i # j /\ xs[i] = xs[j]
    THEN NpInterp(xs, ys, t)
    ELSE IF \E i \in 1..Len(xs) : xs[i] = t
         THEN Fin(ys[CHOOSE i \in 1..Len(xs) : xs[i] = t])
         ELSE <<t, 0, 0>>

\* variant of Interpolated: the spline is used whenever 'cubic' is asked for
InterpolatedCubicAlways(clean, col, t, method) ==
    LET xs == [i \in 1..Len(clean) |-> clean[i].timestamp]
        ys == [i \in 1..Len(clean) |-> Val(clean[i][col])]
    IN IF method = "cubic"
       THEN CubicEval(xs, ys, t)
       ELSE LinearEval(xs, ys, t)

\* lat_interp(target) / lon_interp(target) for one coordinate column
Interpolated(clean, col, t, method) ==
    LET xs == [i \in 1..Len(clean) |-> clean[i].timestamp]
        ys == [i \in 1..Len(clean) |-> Val(clean[i][col])]
    IN IF method = "cubic" /\ Len(clean) >= CubicMinPoints
       THEN CubicEval(xs, ys, t)
       ELSE LinearEval(xs, ys, t)

\* variant of NearFix: only a target equal to a fix timestamp counts
NearFixExactOnly(track, t) ==
    \E i \in 1..Len(track) : t = track[i].timestamp

\* "Mark actual GPS points as not interpolated": a target is an actual fix
\* when some row of the track, valid or not, is less than 30 s away
NearFix(track, t) ==
    \E i \in 1..Len(track) : Abs(t - track[i].timestamp) < Tolerance

InterpolatePositions(gpx, target_times, method) ==
    IF ~Loaded(gpx) THEN AllMissing(target_times)
    ELSE LET track == gpx.rows
             valid == SelectSeq(track, ValidFix)
         IN IF valid = <<>> THEN AllMissing(target_times)
            ELSE LET clean == SortValues(valid, "timestamp")
                 IN [i \in 1..Len(target_times) |->
                      [datetime |-> target_times[i],
                       latitude |-> Interpolated(clean, "latitude",
                                                 target_times[i], method),
                       longitude |-> Interpolated(clean, "longitude",
                                                  target_times[i], method),
                       interpolated |-> ~NearFix(track, target_times[i])]]

----------------------------------------------------------------------------
(* Timeline merger: DrifterDataIntegrator.integrate_data *)

\* the column names a sensor table can carry besides its datetime
SourceColumns == {"sensor_ppb_rwt", "temperature", "latitude", "longitude"}

\* {col: prefix + col for col in columns if col not in exclude}, then rename
Renamed(col, prefix, exclude) == IF col \in exclude THEN col ELSE prefix \o col

RenameColumns(row, prefix, exclude) ==
    [n \in {Renamed(c, prefix, exclude) : c \in DOMAIN row} |->
        row[CHOOSE c \in DOMAIN row : Renamed(c, prefix, exclude) = n]]

RenameTable(table, prefix, exclude) ==
    [i \in 1..Len(table) |-> RenameColumns(table[i], prefix, exclude)]

\* the columns left once 'datetime' has become the index
DataColumns(row) == DOMAIN row \ {"datetime"}

\* DataFrame.join refuses frames that share a column name
ColumnsOverlap(left, right) ==
    DataColumns(left[1]) \cap DataColumns(right[1]) # {}

\* variant of JoinedRows: of several matching right rows only the last is kept
JoinedRowsLastMatch(lrow, right) ==
    LET matches == SelectSeq(right, LAMBDA r : r.datetime = lrow.datetime)
        rcols == DataColumns(right[1])
    IN IF matches = <<>>
       THEN <<lrow @@ [c \in rcols |-> NaN]>>
       ELSE <<lrow @@ [c \in rcols |-> matches[Len(matches)][c]]>>

\* variant of JoinedRows: a right row less than 30 s away matches too
JoinedRowsNearby(lrow, right) ==
    LET matches == SelectSeq(right, LAMBDA r :
                        Abs(r.datetime - lrow.datetime) < Tolerance)
        rcols == DataColumns(right[1])
    IN IF matches = <<>>
       THEN <<lrow @@ [c \in rcols |-> NaN]>>
       ELSE [k \in 1..Len(matches) |->
                lrow @@ [c \in rcols |-> matches[k][c]]]

\* the rows one left row becomes in a left join on the datetime index: one
\* per right row with the same datetime, in the right table's order, or one
\* row of nulls when there is none
JoinedRows(lrow, right) ==
    LET matches == SelectSeq(right, LAMBDA r : r.datetime = lrow.datetime)
        rcols == DataColumns(right[1])
    IN IF matches = <<>>
       THEN <<lrow @@ [c \in rcols |-> NaN]>>
       ELSE [k \in 1..Len(matches) |->
                lrow @@ [c \in rcols |-> matches[k][c]]]

RECURSIVE LeftJoin(_, _)
\* left.set_index('datetime').join(right, how='left').reset_index()
LeftJoin(left, right) ==
    IF left = <<>> THEN <<>>
    ELSE JoinedRows(Head(left), right) \o LeftJoin(Tail(left), right)

----------------------------------------------------------------------------
(* Motion deriver: _add_derived_columns and _calculate_distance *)

\* Distance between two positions in model units.  The haversine formula is
\* replaced by the taxicab length of the displacement, which like it is
\* symmetric, non-negative and zero for equal positions; NaN when a
\* coordinate is not finite (np.sin of NaN or of an infinity is NaN).
CalculateDistance(lat1, lon1, lat2, lon2) ==
    IF IsFinite(lat1) /\ IsFinite(lon1) /\ IsFinite(lat2) /\ IsFinite(lon2)
    THEN Fin(Abs(Val(lat2) - Val(lat1)) + Abs(Val(lon2) - Val(lon1)))
    ELSE NaN

\* variant of Speed: an infinite quotient is kept
SpeedUnnormalised(distance, time_diff) ==
    IF ~IsFinite(distance) \/ ~IsFinite(time_diff) THEN NaN
    ELSE IF Val(time_diff) = 0
         THEN IF Val(distance) = 0 THEN NaN ELSE Inf
    ELSE Fin((Val(distance) * SecondsPerHour) \div Val(time_diff))

\* distance_km / (time_diff_seconds / 3600), then inf -> NaN
Speed(distance, time_diff) ==
    IF ~IsFinite(distance) \/ ~IsFinite(time_diff) THEN NaN
    ELSE IF Val(time_diff) = 0 THEN NaN
    ELSE Fin((Val(distance) * SecondsPerHour) \div Val(time_diff))

\* df['datetime'].diff().dt.total_seconds() at row i
TimeDiff(df, i) ==
    IF i = 1 THEN NaN ELSE Fin(df[i].datetime - df[i - 1].datetime)

\* the columns are assigned on a copy of the frame, an assignment replacing
\* a column of the same name
AddDerivedColumns(df) ==
    [i \in 1..Len(df) |->
        LET row == df[i]
            time_diff == TimeDiff(df, i)
            distance == IF i = 1 THEN NaN
                        ELSE CalculateDistance(df[i - 1].latitude,
                                               df[i - 1].longitude,
                                               row.latitude, row.longitude)
            day == row.datetime \div (24 * SecondsPerHour)
        IN [hour |-> (row.datetime \div SecondsPerHour) % 24,
            day_of_year |-> day + 1,
            time_diff_seconds |-> time_diff,
            distance_km |-> distance,
            speed_kmh |-> Speed(distance, time_diff)] @@ row]

\* variant of CallerFrame: the columns are assigned on the caller's frame
CallerFrameShared(df) == AddDerivedColumns(df)

\* the frame of the caller after the call: "df = df.copy()" rebinds the
\* name, so every assignment goes to the copy
CallerFrame(df) == df

----------------------------------------------------------------------------
(* integrate_data as a function of the loaded sources *)

\* all_times: the timestamps of every source that is loaded and not empty
AllTimes(gpx, fluoro, aqua) ==
    (IF Loaded(fluoro) THEN ColumnValues(fluoro.rows, "datetime") ELSE {})
    \cup (IF Loaded(aqua) THEN ColumnValues(aqua.rows, "datetime") ELSE {})
    \cup (IF Loaded(gpx) THEN ColumnValues(gpx.rows, "timestamp") ELSE {})

UnifiedTimes(gpx, fluoro, aqua) == SortedSet(AllTimes(gpx, fluoro, aqua))

FluoroFrame(fluoro) == RenameTable(fluoro.rows, "fluoro_", {"datetime"})

AquaFrame(aqua) ==
    RenameTable(aqua.rows, "aqua_", {"datetime", "latitude", "longitude"})

\* "Start with interpolated positions"
StartPositions(gpx, fluoro, aqua, method) ==
    InterpolatePositions(gpx, UnifiedTimes(gpx, fluoro, aqua), method)

\* the frame after the fluorometer merge
WithFluoro(gpx, fluoro, aqua, method) ==
    IF Loaded(fluoro)
    THEN LeftJoin(StartPositions(gpx, fluoro, aqua, method),
                  FluoroFrame(fluoro))
    ELSE StartPositions(gpx, fluoro, aqua, method)

NoError == ""
NoDataError == "ValueError: No data loaded for integration"
OverlapError == "ValueError: columns overlap but no suffix specified"

\* variant of IntegrateError: only sources that are None count as missing
IntegrateErrorNoneOnly(gpx, fluoro, aqua, method) ==
    IF ~gpx.present /\ ~fluoro.present /\ ~aqua.present THEN NoDataError
    ELSE IF Loaded(fluoro)
            /\ ColumnsOverlap(StartPositions(gpx, fluoro, aqua, method),
                              FluoroFrame(fluoro))
         THEN OverlapError
    ELSE IF Loaded(aqua)
            /\ ColumnsOverlap(WithFluoro(gpx, fluoro, aqua, method),
                              AquaFrame(aqua))
         THEN OverlapError
         ELSE NoError

\* the exception integrate_data raises on these sources, or NoError
IntegrateError(gpx, fluoro, aqua, method) ==
    IF AllTimes(gpx, fluoro, aqua) = {} THEN NoDataError
    ELSE IF Loaded(fluoro)
            /\ ColumnsOverlap(StartPositions(gpx, fluoro, aqua, method),
                              FluoroFrame(fluoro))
         THEN OverlapError
    ELSE IF Loaded(aqua)
            /\ ColumnsOverlap(WithFluoro(gpx, fluoro, aqua, method),
                              AquaFrame(aqua))
         THEN OverlapError
         ELSE NoError

\* the table integrate_data returns when it raises nothing
Integrated(gpx, fluoro, aqua, method, ties) ==
    LET merged == IF Loaded(aqua)
                  THEN LeftJoin(WithFluoro(gpx, fluoro, aqua, method),
                                AquaFrame(aqua))
                  ELSE WithFluoro(gpx, fluoro, aqua, method)
    IN SortValuesQuick(AddDerivedColumns(merged), "datetime", ties)

----------------------------------------------------------------------------
(* Integration summary: DrifterDataIntegrator.get_summary *)

\* col.startswith(prefix), over the column names the model knows
StartsWith(col, prefix) == \E base \in SourceColumns : col = prefix \o base

PrefixColumns(df, prefix) == {c \in DOMAIN df[1] : StartsWith(c, prefix)}

\* variant of RecordsWithData: every row of the table is counted
RecordsWithDataAllRows(df, cols) == Len(df)

\* df[cols].dropna(how='all').shape[0]
RecordsWithData(df, cols) ==
    Cardinality({i \in 1..Len(df) : \E c \in cols : ~IsNull(df[i][c])})

SourceSummary(df, prefix) ==
    [columns |-> Cardinality(PrefixColumns(df, prefix)),
     records_with_data |-> RecordsWithData(df, PrefixColumns(df, prefix))]

\* the order of the floats that are not NaN
FloatLeq(a, b) ==
    \/ a = NegInf
    \/ b = Inf
    \/ IsFinite(a) /\ IsFinite(b) /\ Val(a) <= Val(b)

FloatMin(S) == CHOOSE a \in S : \A b \in S : FloatLeq(a, b)
FloatMax(S) == CHOOSE a \in S : \A b \in S : FloatLeq(b, a)

RECURSIVE SumSkipNa(_)
\* Series.sum(): NaN entries are skipped
SumSkipNa(values) ==
    IF values = <<>> THEN 0
    ELSE (IF IsFinite(Head(values)) THEN Val(Head(values)) ELSE 0)
         + SumSkipNa(Tail(values))

\* variant of SpatialExtent: without a valid position the entries are
\* present and null
SpatialExtentNullBounds(df) ==
    LET valid_pos == {i \in 1..Len(df) :
                        ~IsNull(df[i].latitude) /\ ~IsNull(df[i].longitude)}
    IN IF valid_pos = {}
       THEN [lat_min |-> NaN, lat_max |-> NaN, lon_min |-> NaN,
             lon_max |-> NaN, total_distance_km |-> Fin(0),
             interpolated_positions |-> 0]
       ELSE [lat_min |-> FloatMin({df[i].latitude : i \in valid_pos}),
             lat_max |-> FloatMax({df[i].latitude : i \in valid_pos}),
             lon_min |-> FloatMin({df[i].longitude : i \in valid_pos}),
             lon_max |-> FloatMax({df[i].longitude : i \in valid_pos}),
             total_distance_km |->
                 Fin(SumSkipNa([i \in 1..Len(df) |-> df[i].distance_km])),
             interpolated_positions |->
                 Cardinality({i \in 1..Len(df) : df[i].interpolated})]

\* the "Spatial summary" block; {} is written <<>>
SpatialExtent(df) ==
    LET valid_pos == {i \in 1..Len(df) :
                        ~IsNull(df[i].latitude) /\ ~IsNull(df[i].longitude)}
    IN IF valid_pos = {} THEN <<>>
       ELSE [lat_min |-> FloatMin({df[i].latitude : i \in valid_pos}),
             lat_max |-> FloatMax({df[i].latitude : i \in valid_pos}),
             lon_min |-> FloatMin({df[i].longitude : i \in valid_pos}),
             lon_max |-> FloatMax({df[i].longitude : i \in valid_pos}),
             total_distance_km |->
                 Fin(SumSkipNa([i \in 1..Len(df) |-> df[i].distance_km])),
             interpolated_positions |->
                 Cardinality({i \in 1..Len(df) : df[i].interpolated})]

\* variant of GetSummaryValue: a missing table is summarised as an empty one
GetSummaryValueEmptyTable(integrated) ==
    [total_records |-> Len(integrated.rows),
     data_sources |-> <<>>, spatial_extent |-> <<>>, columns |-> {}]

\* the dictionary get_summary returns; duration_hours is kept as the pair
\* <<seconds, seconds per hour>>
GetSummaryValue(integrated) ==
    IF ~integrated.present THEN [error |-> "No integrated data available"]
    ELSE LET df == integrated.rows
             times == ColumnValues(df, "datetime")
             start == CHOOSE t \in times : \A u \in times : t <= u
             end == CHOOSE t \in times : \A u \in times : u <= t
         IN [total_records |-> Len(df),
             time_range |->
                 [start |-> start, end |-> end,
                  duration_hours |-> <<end - start, SecondsPerHour>>],
             data_sources |->
                 [src \in {x \in {"fluorometer"} :
                              PrefixColumns(df, "fluoro_") # {}}
                          \cup {x \in {"aquatroll"} :
                                   PrefixColumns(df, "aqua_") # {}} |->
                     SourceSummary(df, IF src = "fluorometer"
                                       THEN "fluoro_" ELSE "aqua_")],
             spatial_extent |-> SpatialExtent(df),
             columns |-> DOMAIN df[1]]

----------------------------------------------------------------------------
(* The inputs of the load operations *)

TrackPoints ==
    {[timestamp |-> t, latitude |-> f[1], longitude |-> f[2]] :
        t \in Times, f \in Fixes}

\* a fluorometer table: the reading of the k-th row is k, so that every row
\* is told apart from the others
FluoroTable(times) ==
    [k \in 1..Len(times) |-> [datetime |-> times[k], sensor_ppb_rwt |-> Fin(k)]]

AquaRows == [datetime : Times, temperature : TemperatureValues]

AquaRowsWithPosition ==
    {r @@ [latitude |-> SensorFix[1], longitude |-> SensorFix[2]] :
        r \in AquaRows}

\* a GPX file may hold no track at all; the sensor parsers raise instead of
\* returning an empty table
GpxInputs == SeqsUpTo(TrackPoints, MaxTrack)
FluoroInputs == {FluoroTable(times) : times \in SeqsUpTo(Times, MaxFluoro)}
                \ {<<>>}
AquaInputs ==
    (SeqsUpTo(AquaRows, MaxAqua) \cup SeqsUpTo(AquaRowsWithPosition, MaxAqua))
    \ {<<>>}

\* sorted target timestamps handed to interpolate_positions
TargetInputs ==
    {SortedSet(S) :
        S \in {T \in SUBSET TargetTimes : Cardinality(T) <= MaxTargets}}

----------------------------------------------------------------------------
(* SPOT collector: datetimes, positions and the positions table *)

\* A datetime is an instant t with a tzinfo ("utc") or without ("naive")
Aware(t) == [t |-> t, tz |-> "utc"]
Naive(t) == [t |-> t, tz |-> "naive"]

\* datetime.isoformat(): the digits of the instant, followed by the offset
\* when the datetime has a tzinfo
IsoFormat(dt) ==
    [digits |-> dt.t, offset |-> IF dt.tz = "utc" THEN "+00:00" ELSE ""]

\* datetime.fromisoformat(text.replace('Z', '+00:00'))
FromIsoFormat(text) ==
    [t |-> text.digits, tz |-> IF text.offset = "" THEN "naive" ELSE "utc"]

\* the order of TEXT values in sqlite: a text that is a proper prefix of
\* another one comes first
TextLess(a, b) ==
    \/ a.digits < b.digits
    \/ a.digits = b.digits /\ a.offset = "" /\ b.offset # ""

\* "a > b" on datetimes raises TypeError when exactly one of them is naive
Comparable(a, b) == a.tz = b.tz

Assets == {"SPOT-A", "SPOT-B"}
Stamps == 0..MaxStamp

\* SpotPosition objects as SpotPosition.parse_timestamp makes them: the
\* timestamp is timezone-aware UTC
SpotPositions(latitudes) ==
    [asset_id : Assets, timestamp : {Aware(t) : t \in Stamps},
     latitude : latitudes]

\* the positions the SPOT API answers with, and its answers
ApiPositions == SpotPositions({45})
ApiAnswers == SeqsUpTo(ApiPositions, MaxApi)

\* the positions handed to the database by its callers
InsertInputs == SpotPositions({45, 46})

\* the row INSERT writes for a position: the timestamp is stored as text
Row(position) ==
    [asset_id |-> position.asset_id,
     timestamp |-> IsoFormat(position.timestamp),
     latitude |-> position.latitude]

\* UNIQUE(asset_id, timestamp)
SameKey(r, q) == r.asset_id = q.asset_id /\ r.timestamp = q.timestamp

\* variant of InsertOrIgnore: INSERT OR REPLACE
InsertOrReplace(table, position) ==
    {r \in table : ~SameKey(r, Row(position))} \cup {Row(position)}

\* INSERT OR IGNORE INTO positions: the table after the statement
InsertOrIgnore(table, position) ==
    IF \E r \in table : SameKey(r, Row(position))
    THEN table
    ELSE table \cup {Row(position)}

\* cursor.rowcount after the statement
RowCount(table, position) ==
    Cardinality(InsertOrIgnore(table, position)) - Cardinality(table)

\* the table after the loop of insert_positions over the first n positions
RECURSIVE InsertedUpTo(_, _, _)
InsertedUpTo(table, list, n) ==
    IF n = 0 THEN table
    ELSE InsertOrIgnore(InsertedUpTo(table, list, n - 1), list[n])

\* inserted_count after the loop over the first n positions
RECURSIVE InsertedCount(_, _, _)
InsertedCount(table, list, n) ==
    IF n = 0 THEN 0
    ELSE InsertedCount(table, list, n - 1)
         + (IF RowCount(InsertedUpTo(table, list, n - 1), list[n]) > 0
            THEN 1 ELSE 0)

\* SpotDatabase.get_latest_position(): ORDER BY timestamp DESC LIMIT 1
GetLatestPosition(table) ==
    IF table = {} THEN None
    ELSE Some(CHOOSE r \in table :
                \A q \in table : ~TextLess(r.timestamp, q.timestamp))

\* SpotDatabase.cleanup_old_positions(days_to_keep): DELETE WHERE
\* timestamp < the isoformat text of the naive cutoff
CleanupOldPositions(table, now, days_to_keep) ==
    {r \in table :
        ~TextLess(r.timestamp,
                  IsoFormat(Naive(now - days_to_keep * DayTicks)))}

\* the collector is made with cleanup_days = 1
cleanup_days == 1

SqliteError == "sqlite3.Error"
RequestError == "requests.exceptions.RequestException"
CompareError ==
    "TypeError: can't compare offset-naive and offset-aware datetimes"

\* the call of a collection cycle that raises, if it is reached
Faults == {"none", "get_latest_position", "get_messages",
           "insert_positions", "get_database_stats"}

\* variant of NewPositions: positions at the last timestamp are kept too
NewPositionsInclusive(all_positions, last_timestamp) ==
    SelectSeq(all_positions,
              LAMBDA p : p.timestamp.t >= last_timestamp.t)

\* [p for p in all_positions if p.timestamp > last_timestamp]
NewPositions(all_positions, last_timestamp) ==
    SelectSeq(all_positions, LAMBDA p : p.timestamp.t > last_timestamp.t)

\* last_timestamp of a cycle: the parsed timestamp of the latest row, or
\* datetime.now() - timedelta(days=1) when the table is empty
LastTimestamp(table, now) ==
    IF GetLatestPosition(table).present
    THEN FromIsoFormat(GetLatestPosition(table).rows.timestamp)
    ELSE Naive(now - DayTicks)

\* what a cycle leaves: the table, last_collection, the arguments of its
\* insert_positions calls and the error it logged
Cycle(table, last, calls, logged) ==
    [positions |-> table, last_collection |-> last, calls |-> calls,
     logged |-> logged]

\* SpotDataCollector.collect_data on a table, at the time now, when the API
\* answers all_positions and the call named by fault raises
CollectData(table, last, now, all_positions, fault) ==
    LET last_timestamp == LastTimestamp(table, now)
        new_positions == NewPositions(all_positions, last_timestamp)
    IN IF fault = "get_latest_position"
       THEN Cycle(table, last, <<>>, SqliteError)
       ELSE IF fault = "get_messages"
       THEN Cycle(table, last, <<>>, RequestError)
       ELSE IF \E i \in 1..Len(all_positions) :
                  ~Comparable(all_positions[i].timestamp, last_timestamp)
       THEN Cycle(table, last, <<>>, CompareError)
       ELSE IF new_positions = <<>>
       THEN Cycle(table, Some(Naive(now)), <<>>, NoError)
       ELSE IF fault = "insert_positions"
       THEN Cycle(table, last, <<new_positions>>, SqliteError)
       ELSE IF fault = "get_database_stats"
       THEN Cycle(InsertedUpTo(table, new_positions, Len(new_positions)),
                  Some(Naive(now)), <<new_positions>>, SqliteError)
       ELSE Cycle(InsertedUpTo(table, new_positions, Len(new_positions)),
                  Some(Naive(now)), <<new_positions>>, NoError)

\* what get_latest_position and get_messages of the API do in a
\* test_connection call
LatestAnswers == {"raises", "none", "position"}
MessagesAnswers == {"raises", "list"}

\* what a test_connection call returns and the requests it makes
Connection(connected, requests) ==
    [connected |-> connected, requests |-> requests]

\* variant of TestConnection: get_messages is called in every case
TestConnectionAlwaysMessages(latest, messages) ==
    IF latest = "raises" THEN Connection(FALSE, <<"get_latest_position">>)
    ELSE IF messages = "raises"
    THEN Connection(FALSE, <<"get_latest_position", "get_messages">>)
    ELSE Connection(TRUE, <<"get_latest_position", "get_messages">>)

\* SpotTrackerAPI.test_connection: the value it returns and the calls it
\* makes
TestConnection(latest, messages) ==
    IF latest = "raises" THEN Connection(FALSE, <<"get_latest_position">>)
    ELSE IF latest = "position"
    THEN Connection(TRUE, <<"get_latest_position">>)
    ELSE IF messages = "raises"
    THEN Connection(FALSE, <<"get_latest_position", "get_messages">>)
    ELSE Connection(TRUE, <<"get_latest_position", "get_messages">>)

\* SpotDataCollector.test_setup; count_raises: get_position_count raises
TestSetup(latest, messages, count_raises) ==
    IF ~TestConnection(latest, messages).connected THEN FALSE
    ELSE ~count_raises

\* the jobs start() puts on the schedule
ScheduledJobs == <<"collect_data", "cleanup_old_data">>

\* SpotDataCollector.__init__ on a new database
CollectorInit ==
    /\ positions = {}
    /\ running = FALSE
    /\ last_collection = None
    /\ jobs = <<>>
    /\ pc = "idle"
    /\ clock = DayTicks
    /\ signalled = FALSE

----------------------------------------------------------------------------
(* The integrator as a state machine.  ret is the outcome of the last call: *)
(* its name, its arguments, the exception it raised and the value returned.*)

Outcome(op, args, raised, value) ==
    [op |-> op, args |-> args, raised |-> raised, value |-> value]

\* DrifterDataIntegrator.__init__
Init ==
    /\ gpx_data = None
    /\ fluorometer_data = None
    /\ aquatroll_data = None
    /\ integrated_data = None
    /\ ret = Outcome("__init__", <<>>, NoError, None)
    /\ caller_df = <<>>
    /\ quicksort_ties \in QuicksortTies
    /\ CollectorInit

\* The load operations.  An integrator loads each source at most once, as
\* integrate_drifter_data and the module's command line do.

\* load_gpx_data: parse_gpx_to_dataframe sorts the points by timestamp
LoadGpxData(points) ==
    /\ ~gpx_data.present
    /\ gpx_data' = Some(SortValues(points, "timestamp"))
    /\ ret' = Outcome("load", <<>>, NoError, None)
    /\ UNCHANGED <<fluorometer_data, aquatroll_data, integrated_data,
                   caller_df,
                   quicksort_ties, collector_vars>>

LoadFluorometerData(rows) ==
    /\ ~fluorometer_data.present
    /\ fluorometer_data' = Some(rows)
    /\ ret' = Outcome("load", <<>>, NoError, None)
    /\ UNCHANGED <<gpx_data, aquatroll_data, integrated_data, caller_df,
                   quicksort_ties, collector_vars>>

LoadAquatrollData(rows) ==
    /\ ~aquatroll_data.present
    /\ aquatroll_data' = Some(rows)
    /\ ret' = Outcome("load", <<>>, NoError, None)
    /\ UNCHANGED <<gpx_data, fluorometer_data, integrated_data, caller_df,
                   quicksort_ties, collector_vars>>

\* variant of IntegrateData: the stored table is dropped when the call
\* raises
IntegrateDataClearing(method) ==
    LET err == IntegrateError(gpx_data, fluorometer_data, aquatroll_data,
                              method)
        table == Integrated(gpx_data, fluorometer_data, aquatroll_data,
                            method, quicksort_ties)
    IN /\ IF err # NoError
          THEN /\ ret' = Outcome("integrate_data", <<>>, err, None)
               /\ integrated_data' = None
          ELSE /\ integrated_data' = Some(table)
               /\ ret' = Outcome("integrate_data", <<>>, NoError,
                                 Some(table))
       /\ UNCHANGED <<gpx_data, fluorometer_data, aquatroll_data, caller_df,
                   quicksort_ties, collector_vars>>

IntegrateData(method) ==
    LET err == IntegrateError(gpx_data, fluorometer_data, aquatroll_data,
                              method)
        table == Integrated(gpx_data, fluorometer_data, aquatroll_data,
                            method, quicksort_ties)
    IN /\ IF err # NoError
          THEN /\ ret' = Outcome("integrate_data", <<>>, err, None)
               /\ UNCHANGED integrated_data
          ELSE /\ integrated_data' = Some(table)
               /\ ret' = Outcome("integrate_data", <<>>, NoError,
                                 Some(table))
       /\ UNCHANGED <<gpx_data, fluorometer_data, aquatroll_data, caller_df,
                   quicksort_ties, collector_vars>>

\* variant of GetSummary: the sources are integrated again before the
\* summary is computed, and the result is stored
GetSummaryRefreshing ==
    LET err == IntegrateError(gpx_data, fluorometer_data, aquatroll_data,
                              "linear")
        table == IF err = NoError
                 THEN Some(Integrated(gpx_data, fluorometer_data,
                                      aquatroll_data, "linear",
                                      quicksort_ties))
                 ELSE integrated_data
    IN /\ integrated_data' = table
       /\ ret' = Outcome("get_summary", <<>>, NoError,
                         Some(GetSummaryValue(table)))
       /\ UNCHANGED <<gpx_data, fluorometer_data, aquatroll_data, caller_df,
                      quicksort_ties, collector_vars>>

GetSummary ==
    /\ ret' = Outcome("get_summary", <<>>, NoError,
                      Some(GetSummaryValue(integrated_data)))
    /\ UNCHANGED <<gpx_data, fluorometer_data, aquatroll_data,
                   integrated_data, caller_df,
                   quicksort_ties, collector_vars>>

Next ==
    \/ \E points \in GpxInputs : LoadGpxData(points)
    \/ \E rows \in FluoroInputs : LoadFluorometerData(rows)
    \/ \E rows \in AquaInputs : LoadAquatrollData(rows)
    \/ \E method \in Methods : IntegrateData(method)
    \/ GetSummary

Spec == Init /\ [][Next]_vars

(* interpolate_positions as a function of the loaded track and its inputs *)

InitInterp ==
    /\ gpx_data \in {None} \cup {Some(SortValues(points, "timestamp")) :
                                    points \in GpxInputs}
    /\ fluorometer_data = None
    /\ aquatroll_data = None
    /\ integrated_data = None
    /\ ret = Outcome("__init__", <<>>, NoError, None)
    /\ caller_df = <<>>
    /\ quicksort_ties = "kept"
    /\ CollectorInit

InterpolatePositionsCall(target_times, method) ==
    /\ ret' = Outcome("interpolate_positions", <<target_times, method>>,
                      NoError,
                      Some(InterpolatePositions(gpx_data, target_times,
                                                method)))
    /\ UNCHANGED <<gpx_data, fluorometer_data, aquatroll_data,
                   integrated_data, caller_df,
                   quicksort_ties, collector_vars>>

NextInterp ==
    \E target_times \in TargetInputs, method \in Methods :
        InterpolatePositionsCall(target_times, method)

SpecInterp == InitInterp /\ [][NextInterp]_vars

(* _add_derived_columns as a function of the frame handed to it *)

\* the positions a merged frame can carry: those of Fixes, and the infinite
\* position the interpolator gives on a track with a repeated timestamp
FramePositions == Fixes \cup {<<Inf, Inf>>}

FrameRows ==
    {[datetime |-> t, latitude |-> f[1], longitude |-> f[2]] :
        t \in Times, f \in FramePositions}

\* frames ordered by timestamp, of at least one row
DeriveInputs ==
    {rows \in SeqsUpTo(FrameRows, MaxFrame) :
        /\ rows # <<>>
        /\ \A i \in 1..(Len(rows) - 1) :
              rows[i].datetime <= rows[i + 1].datetime}

InitDerive ==
    /\ gpx_data = None
    /\ fluorometer_data = None
    /\ aquatroll_data = None
    /\ integrated_data = None
    /\ ret = Outcome("__init__", <<>>, NoError, None)
    /\ caller_df \in DeriveInputs
    /\ quicksort_ties = "kept"
    /\ CollectorInit

\* _add_derived_columns(caller_df); the argument is kept in ret as it was
\* when the call was made
AddDerivedColumnsCall ==
    /\ ret.op = "__init__"
    /\ ret' = Outcome("_add_derived_columns", <<caller_df>>, NoError,
                      Some(AddDerivedColumns(caller_df)))
    /\ caller_df' = CallerFrame(caller_df)
    /\ UNCHANGED <<gpx_data, fluorometer_data, aquatroll_data,
                   integrated_data, quicksort_ties, collector_vars>>

\* _add_derived_columns applied to the frame the previous call returned
AddDerivedColumnsAgain ==
    /\ ret.op = "_add_derived_columns"
    /\ Len(ret.args) = 1
    /\ ret' = Outcome("_add_derived_columns", <<ret.args[1], ret.value.rows>>,
                      NoError, Some(AddDerivedColumns(ret.value.rows)))
    /\ UNCHANGED <<gpx_data, fluorometer_data, aquatroll_data,
                   integrated_data, caller_df,
                   quicksort_ties, collector_vars>>

NextDerive == AddDerivedColumnsCall \/ AddDerivedColumnsAgain

SpecDerive == InitDerive /\ [][NextDerive]_vars

----------------------------------------------------------------------------
(* Properties of integrate_data and get_summary, checked under Spec.  A    *)
(* load resets ret, so while ret names a call the sources are still the    *)
(* ones that call read.                                                     *)

IntegrateReturned == ret.op = "integrate_data" /\ ret.raised = NoError
IntegrateRaised == ret.op = "integrate_data" /\ ret.raised # NoError
NothingLoaded ==
    ~Loaded(gpx_data) /\ ~Loaded(fluorometer_data) /\ ~Loaded(aquatroll_data)
ReturnedTable == ret.value.rows

\* the rows of a table that carry the timestamp t
RowsAt(table, t) == {i \in 1..Len(table) : table[i].datetime = t}

\* C1: integrate_data called while every source is absent or empty raises
\* "No data loaded for integration" and returns no table.
C1_NoDataRaises ==
    (ret.op = "integrate_data" /\ NothingLoaded)
        => (ret.raised = NoDataError /\ ret.value = None)

\* an integrate_data call made after an empty GPX file was loaded
C1_Witness ==
    /\ ret.op = "integrate_data"
    /\ NothingLoaded
    /\ gpx_data.present

C3_EachTimestampOnce ==
    IntegrateReturned =>
        \A t \in AllTimes(gpx_data, fluorometer_data, aquatroll_data) :
            Cardinality(RowsAt(ReturnedTable, t)) = 1

\* the source rows of a sensor table reproduced under the prefix: some row of
\* the table at the source row's timestamp holds every non-position field of
\* the source row in the prefixed column
Reproduced(table, source, prefix) ==
    \A k \in 1..Len(source) :
        \E i \in RowsAt(table, source[k].datetime) :
            \A c \in DOMAIN source[k] \ {"datetime", "latitude", "longitude"} :
                /\ (prefix \o c) \in DOMAIN table[i]
                /\ table[i][prefix \o c] = source[k][c]

\* C4: every row of the fluorometer and of the AquaTROLL table is found in
\* the returned table, at its own timestamp, with each non-position field in
\* the column fluoro_<field> / aqua_<field>.
C4_JoinCorrect ==
    IntegrateReturned =>
        /\ Loaded(fluorometer_data) =>
               Reproduced(ReturnedTable, fluorometer_data.rows, "fluoro_")
        /\ Loaded(aquatroll_data) =>
               Reproduced(ReturnedTable, aquatroll_data.rows, "aqua_")

\* both sensors merged, the fluorometer holding two rows at one timestamp
C4_Witness ==
    /\ IntegrateReturned
    /\ Loaded(aquatroll_data)
    /\ Loaded(fluorometer_data)
    /\ Len(fluorometer_data.rows) = 2
    /\ fluorometer_data.rows[1].datetime = fluorometer_data.rows[2].datetime

\* the prefixed columns of a source are all null in every row whose
\* timestamp no row of the source carries
NullWhereAbsent(table, source, prefix) ==
    \A i \in 1..Len(table) :
        table[i].datetime \notin ColumnValues(source, "datetime") =>
            \A c \in DOMAIN source[1] \ {"datetime", "latitude", "longitude"} :
                /\ (prefix \o c) \in DOMAIN table[i]
                /\ IsNull(table[i][prefix \o c])

\* C5: in a row of the returned table whose timestamp is not the timestamp of
\* any row of a loaded sensor source, all prefixed fields of that source are
\* null, however close the nearest source row is.
C5_NullWhereNoExactMatch ==
    IntegrateReturned =>
        /\ Loaded(fluorometer_data) =>
               NullWhereAbsent(ReturnedTable, fluorometer_data.rows, "fluoro_")
        /\ Loaded(aquatroll_data) =>
               NullWhereAbsent(ReturnedTable, aquatroll_data.rows, "aqua_")

\* a returned row one tick away from the only fluorometer reading
C5_Witness ==
    /\ IntegrateReturned
    /\ Loaded(fluorometer_data)
    /\ \E i \in 1..Len(ReturnedTable) :
          /\ ReturnedTable[i].datetime
                 \notin ColumnValues(fluorometer_data.rows, "datetime")
          /\ \E k \in 1..Len(fluorometer_data.rows) :
                Abs(ReturnedTable[i].datetime
                    - fluorometer_data.rows[k].datetime) < Tolerance

\* C6: when the AquaTROLL table has latitude/longitude columns,
\* integrate_data still returns a table, and the latitude and longitude of
\* its rows are those of the position interpolator.
C6_SensorPositionIgnored ==
    (ret.op = "integrate_data" /\ Loaded(aquatroll_data)
        /\ "latitude" \in DOMAIN aquatroll_data.rows[1])
        => /\ ret.raised = NoError
           /\ LET pos == InterpolatePositions(gpx_data,
                              UnifiedTimes(gpx_data, fluorometer_data,
                                           aquatroll_data), "linear")
              IN \A i \in 1..Len(ReturnedTable) :
                    \E p \in 1..Len(pos) :
                       /\ pos[p].datetime = ReturnedTable[i].datetime
                       /\ pos[p].latitude = ReturnedTable[i].latitude
                       /\ pos[p].longitude = ReturnedTable[i].longitude

----------------------------------------------------------------------------
(* Properties of interpolate_positions, checked under SpecInterp *)

InterpolateReturned == ret.op = "interpolate_positions"
Targets == ret.args[1]
Positions == ret.value.rows

\* the track gives nothing to interpolate from: absent, empty, or without a
\* fix whose coordinates are both non-null
NoUsableTrack ==
    \/ ~gpx_data.present
    \/ \A i \in 1..Len(gpx_data.rows) :
          IsNull(gpx_data.rows[i].latitude)
          \/ IsNull(gpx_data.rows[i].longitude)

C8_NearFixNotInterpolated ==
    (InterpolateReturned /\ ~NoUsableTrack)
        => \A i \in 1..Len(Targets) :
              (\E k \in 1..Len(gpx_data.rows) :
                  Abs(Targets[i] - gpx_data.rows[k].timestamp) < Tolerance)
                  => Positions[i].interpolated = FALSE

\* a target one tick from the only fix (inside the window) next to a target
\* two ticks from it (at the edge of the window, flagged interpolated)
C8_Witness ==
    /\ InterpolateReturned
    /\ ~NoUsableTrack
    /\ Len(gpx_data.rows) = 1
    /\ \E i, j \in 1..Len(Targets) :
          /\ Abs(Targets[i] - gpx_data.rows[1].timestamp) = TickSeconds
          /\ Positions[i].interpolated = FALSE
          /\ Abs(Targets[j] - gpx_data.rows[1].timestamp) = Tolerance
          /\ Positions[j].interpolated = TRUE

\* the timestamps of the fixes with usable coordinates
ValidTimes ==
    {gpx_data.rows[k].timestamp :
        k \in {n \in 1..Len(gpx_data.rows) : ValidFix(gpx_data.rows[n])}}

OutsideSpan(t) ==
    \/ \A u \in ValidTimes : t < u
    \/ \A u \in ValidTimes : t > u

\* C9: a target earlier than the first or later than the last track point
\* gets a non-null extrapolated position and interpolated = TRUE, whatever
\* its distance from the nearest track point.
C9_ExtrapolatedAlwaysFlagged ==
    (InterpolateReturned /\ ~NoUsableTrack)
        => \A i \in 1..Len(Targets) :
              OutsideSpan(Targets[i])
                  => /\ ~IsNull(Positions[i].latitude)
                     /\ ~IsNull(Positions[i].longitude)
                     /\ Positions[i].interpolated = TRUE

\* C10: a row returned with interpolated = FALSE carries the coordinates of
\* a recorded fix less than 30 s from its timestamp.
C10_NearFixKeepsFixCoordinates ==
    (InterpolateReturned /\ ~NoUsableTrack)
        => \A i \in 1..Len(Targets) :
              Positions[i].interpolated = FALSE
                  => \E k \in 1..Len(gpx_data.rows) :
                        /\ Abs(Targets[i] - gpx_data.rows[k].timestamp)
                               < Tolerance
                        /\ Positions[i].latitude = gpx_data.rows[k].latitude
                        /\ Positions[i].longitude = gpx_data.rows[k].longitude

\* the fixes of the loaded track that take part in the interpolation, in
\* time order
CleanFixes ==
    IF gpx_data.present
    THEN SortValues(SelectSeq(gpx_data.rows, ValidFix), "timestamp")
    ELSE <<>>

Method == ret.args[2]

\* the track with its rows in the opposite order
ReversedTrack ==
    Some([k \in 1..Len(gpx_data.rows) |->
             gpx_data.rows[Len(gpx_data.rows) + 1 - k]])

\* C11: on a track with fewer than 4 usable fixes, interpolate_positions
\* with method 'cubic' raises nothing and returns exactly the rows
\* (timestamps, positions and flags) that method 'linear' returns for the
\* same track and targets.
C11_CubicFallsBackToLinear ==
    (InterpolateReturned /\ Method = "cubic"
        /\ Len(CleanFixes) < CubicMinPoints)
        => /\ ret.raised = NoError
           /\ Positions = InterpolatePositions(gpx_data, Targets, "linear")

\* 'cubic' asked for on a track of two usable fixes at different times, with
\* a target strictly between them
C11_Witness ==
    /\ InterpolateReturned
    /\ Method = "cubic"
    /\ Len(CleanFixes) = 2
    /\ \E i \in 1..Len(Targets) :
          /\ CleanFixes[1].timestamp < Targets[i]
          /\ Targets[i] < CleanFixes[2].timestamp
          /\ IsFinite(Positions[i].latitude)

\* p0 + (p1 - p0) * (t - t0) / (t1 - t0)
OnSegment(p0, p1, t0, t1, t) ==
    Fin(Val(p0) + (((Val(p1) - Val(p0)) * (t - t0)) \div (t1 - t0)))

\* C12: with method 'linear', a target strictly between two consecutive
\* usable fixes (t0, p0), (t1, p1) of the track in time order gets
\* latitude and longitude p0 + (p1 - p0)*(t - t0)/(t1 - t0); a track whose
\* fixes have different timestamps gives the same positions when its rows
\* are held in the opposite order; and a target more than 30 s from every
\* row of the track is returned with interpolated = TRUE.
C12_LinearBetweenFixes ==
    (InterpolateReturned /\ Method = "linear")
        => /\ \A i \in 1..Len(Targets) :
                 \A k \in 1..(Len(CleanFixes) - 1) :
                    (CleanFixes[k].timestamp < Targets[i]
                        /\ Targets[i] < CleanFixes[k + 1].timestamp)
                    => /\ Positions[i].latitude =
                             OnSegment(CleanFixes[k].latitude,
                                       CleanFixes[k + 1].latitude,
                                       CleanFixes[k].timestamp,
                                       CleanFixes[k + 1].timestamp,
                                       Targets[i])
                       /\ Positions[i].longitude =
                             OnSegment(CleanFixes[k].longitude,
                                       CleanFixes[k + 1].longitude,
                                       CleanFixes[k].timestamp,
                                       CleanFixes[k + 1].timestamp,
                                       Targets[i])
           /\ (gpx_data.present
                  /\ \A a, b \in 1..Len(gpx_data.rows) :
                        a # b => gpx_data.rows[a].timestamp
                                    # gpx_data.rows[b].timestamp)
                 => InterpolatePositions(ReversedTrack, Targets, "linear")
                        = Positions
           /\ \A i \in 1..Len(Targets) :
                 (gpx_data.present
                     => \A k \in 1..Len(gpx_data.rows) :
                           Abs(Targets[i] - gpx_data.rows[k].timestamp)
                               > Tolerance)
                 => Positions[i].interpolated = TRUE

\* two fixes at different positions, a target halfway between them, and a
\* target more than 30 s after the last of them
C12_Witness ==
    /\ InterpolateReturned
    /\ Method = "linear"
    /\ Len(CleanFixes) = 2
    /\ CleanFixes[1].latitude # CleanFixes[2].latitude
    /\ \E i, j \in 1..Len(Targets) :
          /\ CleanFixes[1].timestamp < Targets[i]
          /\ Targets[i] < CleanFixes[2].timestamp
          /\ IsFinite(Positions[i].latitude)
          /\ Positions[i].latitude # CleanFixes[1].latitude
          /\ Positions[i].latitude # CleanFixes[2].latitude
          /\ \A k \in 1..Len(gpx_data.rows) :
                Abs(Targets[j] - gpx_data.rows[k].timestamp) > Tolerance
          /\ Positions[j].interpolated = TRUE

\* C13: on a track of at least 2 points, every returned latitude and
\* longitude is a finite number, never NaN and never infinite.
C13_PositionsAlwaysFinite ==
    (InterpolateReturned /\ gpx_data.present /\ Len(gpx_data.rows) >= 2)
        => \A i \in 1..Len(Targets) :
              /\ IsFinite(Positions[i].latitude)
              /\ IsFinite(Positions[i].longitude)

----------------------------------------------------------------------------
(* Properties of the returned table's order and derived columns *)

\* C14: in the table integrate_data returns, every row has a strictly
\* greater timestamp than the row before it.
C14_StrictlyIncreasing ==
    IntegrateReturned =>
        \A i \in 2..Len(ReturnedTable) :
            ReturnedTable[i - 1].datetime < ReturnedTable[i].datetime

\* C15: in the table integrate_data returns, time_diff_seconds is null in
\* the first row, and in every other row it is the row's timestamp minus
\* the timestamp of the row before it in the returned order.
C15_TimeDiffOfReturnedOrder ==
    IntegrateReturned =>
        \A i \in 1..Len(ReturnedTable) :
            ReturnedTable[i].time_diff_seconds =
                IF i = 1 THEN NaN
                ELSE Fin(ReturnedTable[i].datetime
                         - ReturnedTable[i - 1].datetime)

PositionNull(row) == IsNull(row.latitude) \/ IsNull(row.longitude)

\* C16: in the table integrate_data returns, distance_km is null exactly in
\* the first row and in the rows whose position, or whose predecessor's
\* position, is null; in every other row it is the non-negative distance
\* between the two consecutive positions.
C16_DistanceNullExactly ==
    IntegrateReturned =>
        \A i \in 1..Len(ReturnedTable) :
            LET row == ReturnedTable[i]
            IN IF i = 1 \/ PositionNull(row)
                  \/ PositionNull(ReturnedTable[i - 1])
               THEN IsNull(row.distance_km)
               ELSE /\ IsFinite(row.distance_km)
                    /\ Val(row.distance_km) >= 0
                    /\ row.distance_km =
                          CalculateDistance(ReturnedTable[i - 1].latitude,
                                            ReturnedTable[i - 1].longitude,
                                            row.latitude, row.longitude)

----------------------------------------------------------------------------
(* Properties of _add_derived_columns, checked under SpecDerive *)

DeriveReturned == ret.op = "_add_derived_columns"
Derived == ret.value.rows
\* the frame the last call was given
DeriveArgument == ret.args[Len(ret.args)]

\* C17: speed_kmh is never infinite; in a row whose time_diff_seconds is 0
\* it is null, whether distance_km is zero or positive; in a row with a
\* positive time_diff_seconds and a non-null distance_km it is
\* distance_km / (time_diff_seconds / 3600).
C17_SpeedNeverInfinite ==
    DeriveReturned =>
        \A i \in 1..Len(Derived) :
            LET row == Derived[i]
            IN /\ row.speed_kmh \notin {Inf, NegInf}
               /\ row.time_diff_seconds = Fin(0) => IsNull(row.speed_kmh)
               /\ (IsFinite(row.time_diff_seconds)
                     /\ Val(row.time_diff_seconds) > 0
                     /\ ~IsNull(row.distance_km))
                    => row.speed_kmh =
                         Fin((Val(row.distance_km) * SecondsPerHour)
                             \div Val(row.time_diff_seconds))

\* a frame with a step of 0 s over a positive distance, and a step of
\* positive duration over a positive distance
C17_Witness ==
    /\ DeriveReturned
    /\ \E i, j \in 1..Len(Derived) :
          /\ Derived[i].time_diff_seconds = Fin(0)
          /\ IsFinite(Derived[i].distance_km)
          /\ Val(Derived[i].distance_km) > 0
          /\ IsNull(Derived[i].speed_kmh)
          /\ IsFinite(Derived[j].speed_kmh)
          /\ Val(Derived[j].speed_kmh) > 0

DerivedColumns == {"time_diff_seconds", "distance_km", "speed_kmh"}

\* C18: _add_derived_columns leaves the frame it is given as it was, and
\* applied to the frame it returned it returns the same time_diff_seconds,
\* distance_km and speed_kmh in every row.
C18_DerivePure ==
    DeriveReturned =>
        /\ caller_df = ret.args[1]
        /\ DerivedColumns \cap DOMAIN caller_df[1] = {}
        /\ Len(ret.args) = 2 =>
              /\ Len(Derived) = Len(DeriveArgument)
              /\ \A i \in 1..Len(Derived) :
                    \A c \in DerivedColumns :
                       Derived[i][c] = DeriveArgument[i][c]

\* the second application, on a frame of three rows with a positive speed
C18_Witness ==
    /\ DeriveReturned
    /\ Len(ret.args) = 2
    /\ Len(Derived) = 3
    /\ \E i \in 1..Len(Derived) :
          /\ IsFinite(Derived[i].speed_kmh)
          /\ Val(Derived[i].speed_kmh) > 0

\* C18, for integrate_data: called again on the same loaded sources it
\* returns the table it returned before.
C18_IntegrateTwiceSame ==
    [][(IntegrateReturned /\ ret'.op = "integrate_data")
          => ret'.value = ret.value]_vars

----------------------------------------------------------------------------
(* Properties of get_summary on an integrated table, checked under Spec *)

SummaryReturned == ret.op = "get_summary" /\ integrated_data.present
Summary == ret.value.rows
Table == integrated_data.rows

\* the rows of the summarised table with a non-null field under the prefix
Covered(prefix) ==
    {i \in 1..Len(Table) :
        \E c \in DOMAIN Table[i] :
            StartsWith(c, prefix) /\ ~IsNull(Table[i][c])}

\* the source has an entry exactly when the table has a column under its
\* prefix, the entry counts the covered rows, and a source that is not
\* loaded has no entry
CoverageOf(name, prefix, source) ==
    /\ (name \in DOMAIN Summary.data_sources)
          <=> (\E c \in DOMAIN Table[1] : StartsWith(c, prefix))
    /\ name \in DOMAIN Summary.data_sources =>
          Summary.data_sources[name].records_with_data
              = Cardinality(Covered(prefix))
    /\ ~source.present => name \notin DOMAIN Summary.data_sources

Positioned == {i \in 1..Len(Table) : ~PositionNull(Table[i])}

IsLeast(v, S) == v \in S /\ \A w \in S : FloatLeq(v, w)
IsGreatest(v, S) == v \in S /\ \A w \in S : FloatLeq(w, v)

\* C20: get_summary on an integrated table raises nothing; when every row
\* has a null position its spatial extent is empty, otherwise lat_min,
\* lat_max, lon_min and lon_max are the least and greatest latitude and
\* longitude of the rows with a non-null position.
C20_SpatialExtentOfPositioned ==
    SummaryReturned =>
        /\ ret.raised = NoError
        /\ IF Positioned = {}
           THEN DOMAIN Summary.spatial_extent = {}
           ELSE LET ext == Summary.spatial_extent
                    lats == {Table[i].latitude : i \in Positioned}
                    lons == {Table[i].longitude : i \in Positioned}
                IN /\ IsLeast(ext.lat_min, lats)
                   /\ IsGreatest(ext.lat_max, lats)
                   /\ IsLeast(ext.lon_min, lons)
                   /\ IsGreatest(ext.lon_max, lons)

\* a summary of a table made from fluorometer readings and a track whose
\* fixes have no coordinates
C20_Witness ==
    /\ SummaryReturned
    /\ Loaded(gpx_data)
    /\ Loaded(fluorometer_data)
    /\ Len(Table) >= 2
    /\ Positioned = {}

----------------------------------------------------------------------------
(* Frame of get_summary and of integrate_data, checked under Spec *)

SourcesUnchanged ==
    UNCHANGED <<gpx_data, fluorometer_data, aquatroll_data>>

\* C21: a get_summary call changes neither the stored table nor the loaded
\* sources and returns the summary of the stored table; the stored table
\* changes only in an integrate_data call that returns, which stores the
\* table it returns; and a get_summary call that follows a get_summary call
\* returns the same result.
C21_SummaryReadOnly ==
    [][/\ ret'.op = "get_summary" =>
            /\ integrated_data' = integrated_data
            /\ SourcesUnchanged
            /\ ret'.raised = NoError
            /\ ret'.value = Some(GetSummaryValue(integrated_data))
       /\ integrated_data' # integrated_data =>
            /\ ret'.op = "integrate_data"
            /\ ret'.raised = NoError
            /\ integrated_data' = ret'.value
       /\ (ret.op = "get_summary" /\ ret'.op = "get_summary") =>
            ret'.value = ret.value]_vars

\* a summary of a table that was stored before the fluorometer readings
\* were loaded: the sources have changed since, the table has not
C21_Witness ==
    /\ SummaryReturned
    /\ Loaded(fluorometer_data)
    /\ Len(Table) > 0
    /\ \A c \in DOMAIN Table[1] : ~StartsWith(c, "fluoro_")
    /\ "fluorometer" \notin DOMAIN Summary.data_sources

\* the timestamps of the rows of a table
TableTimes(rows) == {rows[i].datetime : i \in 1..Len(rows)}

\* C30: an integrate_data call leaves the three loaded sources unchanged;
\* when it returns, the table it returns is the stored table and has a row
\* for every timestamp of every loaded source; when it raises, it returns
\* nothing and the stored table is the one stored before the call.
C30_NoPartialSuccess ==
    [][ret'.op = "integrate_data" =>
          /\ SourcesUnchanged
          /\ IF ret'.raised = NoError
             THEN /\ ret'.value.present
                  /\ integrated_data' = ret'.value
                  /\ TableTimes(ret'.value.rows)
                        = AllTimes(gpx_data, fluorometer_data,
                                   aquatroll_data)
             ELSE /\ ret'.value = None
                  /\ integrated_data' = integrated_data]_vars

\* an integrate_data call has raised while a table stored by an earlier
\* call is still the stored table
C30_Witness ==
    /\ IntegrateRaised
    /\ integrated_data.present
    /\ Len(integrated_data.rows) > 0

----------------------------------------------------------------------------
(* The positions database as a state machine: SpotDatabase on one file *)

\* The arguments of a call and the value it returns are kept in ret under
\* their names
NoArgs == [self |-> "SpotDataCollector"]
SetupArgs(latest, messages, count_raises) ==
    [latest |-> latest, messages |-> messages,
     count_raises |-> count_raises]

\* insert_position(position); raises: sqlite raises an error, which is
\* raised again after the transaction is rolled back
InsertPosition(position, raises) ==
    /\ pc = "idle"
    /\ IF raises
       THEN /\ ret' = Outcome("insert_position", [position |-> position],
                              SqliteError, None)
            /\ UNCHANGED positions
       ELSE /\ positions' = InsertOrIgnore(positions, position)
            /\ ret' = Outcome("insert_position", [position |-> position],
                              NoError,
                              [inserted |->
                                  RowCount(positions, position) > 0])
    /\ UNCHANGED <<integrator_vars, running, last_collection, jobs, pc,
                   clock, signalled>>

\* insert_positions(list)
InsertPositions(list, raises) ==
    /\ pc = "idle"
    /\ IF raises
       THEN /\ ret' = Outcome("insert_positions", [list |-> list],
                              SqliteError, None)
            /\ UNCHANGED positions
       ELSE /\ positions' = InsertedUpTo(positions, list, Len(list))
            /\ ret' = Outcome("insert_positions", [list |-> list], NoError,
                              [inserted_count |->
                                  InsertedCount(positions, list,
                                                Len(list))])
    /\ UNCHANGED <<integrator_vars, running, last_collection, jobs, pc,
                   clock, signalled>>

\* SpotDataCollector.cleanup_old_data: an error of the database is logged
CleanupOldData(raises) ==
    /\ pc = "idle"
    /\ positions' = IF raises THEN positions
                    ELSE CleanupOldPositions(positions, clock, cleanup_days)
    /\ ret' = Outcome("cleanup_old_data", NoArgs, NoError, None)
    /\ UNCHANGED <<integrator_vars, running, last_collection, jobs, pc,
                   clock, signalled>>

\* a day passes
Tick ==
    /\ clock < MaxClock
    /\ clock' = clock + 1
    /\ UNCHANGED <<integrator_vars, ret, positions, running,
                   last_collection, jobs, pc, signalled>>

InitDatabase ==
    /\ gpx_data = None
    /\ fluorometer_data = None
    /\ aquatroll_data = None
    /\ integrated_data = None
    /\ ret = Outcome("__init__", NoArgs, NoError, None)
    /\ caller_df = <<>>
    /\ quicksort_ties = "kept"
    /\ CollectorInit

NextDatabase ==
    \/ \E position \in InsertInputs, raises \in BOOLEAN :
          InsertPosition(position, raises)
    \/ \E list \in SeqsUpTo(InsertInputs, MaxApi), raises \in BOOLEAN :
          InsertPositions(list, raises)
    \/ \E raises \in BOOLEAN : CleanupOldData(raises)
    \/ Tick

SpecDatabase == InitDatabase /\ [][NextDatabase]_vars

----------------------------------------------------------------------------
(* The SPOT collector as a state machine.  pc is the statement start() has *)
(* reached, "idle" when no start() call is in progress; signalled records  *)
(* that a SIGINT or SIGTERM was delivered since start() was called.        *)

\* the outcome of a collection cycle: its inputs, and the arguments of its
\* insert_positions calls with the error it logged
CycleOutcome(all_positions, fault, cycle) ==
    Outcome("collect_data",
            [all_positions |-> all_positions, fault |-> fault], NoError,
            [calls |-> cycle.calls, logged |-> cycle.logged])

\* collect_data() as a step: the cycle on the current table and clock
CollectDataStep(all_positions, fault) ==
    LET cycle == CollectData(positions, last_collection, clock,
                             all_positions, fault)
    IN /\ positions' = cycle.positions
       /\ last_collection' = cycle.last_collection
       /\ ret' = CycleOutcome(all_positions, fault, cycle)

\* run_once()
RunOnce(all_positions, fault) ==
    /\ pc = "idle"
    /\ CollectDataStep(all_positions, fault)
    /\ UNCHANGED <<integrator_vars, running, jobs, pc, clock, signalled>>

\* SpotTrackerAPI.test_connection()
TestConnectionCall(latest, messages) ==
    /\ pc = "idle"
    /\ ret' = Outcome("test_connection",
                      [latest |-> latest, messages |-> messages], NoError,
                      TestConnection(latest, messages))
    /\ UNCHANGED <<integrator_vars, collector_vars>>

\* test_setup()
TestSetupCall(latest, messages, count_raises) ==
    /\ pc = "idle"
    /\ ret' = Outcome("test_setup", SetupArgs(latest, messages, count_raises),
                      NoError,
                      [ok |-> TestSetup(latest, messages, count_raises)])
    /\ UNCHANGED <<integrator_vars, collector_vars>>

Stopped(is_running, schedule) ==
    [running |-> is_running, jobs |-> schedule]

\* variant of Stop: the schedule is not cleared
StopKeepingJobs(is_running, schedule) ==
    IF ~is_running THEN Stopped(is_running, schedule)
    ELSE Stopped(FALSE, schedule)

\* stop(): running and the schedule after the call
Stop(is_running, schedule) ==
    IF ~is_running THEN Stopped(is_running, schedule)
    ELSE Stopped(FALSE, <<>>)

\* stop() called by the program that owns the collector
StopCall ==
    /\ pc = "idle"
    /\ running' = Stop(running, jobs).running
    /\ jobs' = Stop(running, jobs).jobs
    /\ ret' = Outcome("stop", NoArgs, NoError, None)
    /\ UNCHANGED <<integrator_vars, positions, last_collection, pc, clock,
                   signalled>>

\* _signal_handler: SIGINT or SIGTERM is delivered and stop() runs between
\* two statements of the main thread
SignalHandler ==
    /\ running' = Stop(running, jobs).running
    /\ jobs' = Stop(running, jobs).jobs
    /\ signalled' = IF pc # "idle" THEN TRUE ELSE signalled
    /\ UNCHANGED <<integrator_vars, ret, positions, last_collection, pc,
                   clock>>

\* start() is called: "if self.running: return" is not taken
Start ==
    /\ pc = "idle"
    /\ ~running
    /\ pc' = "test_setup"
    /\ signalled' = FALSE
    /\ UNCHANGED <<integrator_vars, ret, positions, running,
                   last_collection, jobs, clock>>

\* start() is called by another thread while the loop runs: it returns
StartWhileRunning ==
    /\ pc = "loop"
    /\ running
    /\ ret' = Outcome("start", NoArgs, NoError, None)
    /\ UNCHANGED <<integrator_vars, collector_vars>>

\* "self.test_setup()" in start()
StartTestSetup(latest, messages, count_raises) ==
    /\ pc = "test_setup"
    /\ pc' = IF TestSetup(latest, messages, count_raises)
             THEN "schedule" ELSE "setup_failed"
    /\ ret' = Outcome("test_setup",
                      SetupArgs(latest, messages, count_raises), NoError,
                      [ok |-> TestSetup(latest, messages, count_raises)])
    /\ UNCHANGED <<integrator_vars, positions, running, last_collection,
                   jobs, clock, signalled>>

\* "if not self.test_setup(): return"
StartSetupFailed ==
    /\ pc = "setup_failed"
    /\ pc' = "idle"
    /\ signalled' = FALSE
    /\ ret' = Outcome("start", NoArgs, NoError, None)
    /\ UNCHANGED <<integrator_vars, positions, running, last_collection,
                   jobs, clock>>

\* the two schedule.every(...).do(...) statements
StartSchedule ==
    /\ pc = "schedule"
    /\ jobs' = jobs \o ScheduledJobs
    /\ pc' = "collect"
    /\ UNCHANGED <<integrator_vars, ret, positions, running,
                   last_collection, clock, signalled>>

\* the initial self.collect_data()
StartCollect(all_positions, fault) ==
    /\ pc = "collect"
    /\ CollectDataStep(all_positions, fault)
    /\ pc' = "set_running"
    /\ UNCHANGED <<integrator_vars, running, jobs, clock, signalled>>

\* self.running = True
StartSetRunning ==
    /\ pc = "set_running"
    /\ running' = TRUE
    /\ pc' = "loop"
    /\ UNCHANGED <<integrator_vars, ret, positions, last_collection, jobs,
                   clock, signalled>>

\* one turn of "while self.running" in which run_pending() finds the
\* collection job due and runs it
StartLoopCollect(all_positions, fault) ==
    /\ pc = "loop"
    /\ running
    /\ \E i \in 1..Len(jobs) : jobs[i] = "collect_data"
    /\ CollectDataStep(all_positions, fault)
    /\ UNCHANGED <<integrator_vars, running, jobs, pc, clock, signalled>>

\* one turn in which run_pending() finds the cleanup job due and runs it:
\* cleanup_old_data logs an error of the database
StartLoopCleanup(raises) ==
    /\ pc = "loop"
    /\ running
    /\ \E i \in 1..Len(jobs) : jobs[i] = "cleanup_old_data"
    /\ positions' = IF raises THEN positions
                    ELSE CleanupOldPositions(positions, clock, cleanup_days)
    /\ UNCHANGED <<integrator_vars, ret, running, last_collection, jobs, pc,
                   clock, signalled>>

\* one turn in which no job is due: the thread sleeps for a minute
StartLoopSleep ==
    /\ pc = "loop"
    /\ running
    /\ UNCHANGED vars

\* "while self.running" finds running false: start() returns
StartReturn ==
    /\ pc = "loop"
    /\ ~running
    /\ pc' = "idle"
    /\ signalled' = FALSE
    /\ ret' = Outcome("start", NoArgs, NoError, None)
    /\ UNCHANGED <<integrator_vars, positions, running, last_collection,
                   jobs, clock>>

\* the statements of start() after the call
StartStep ==
    \/ \E latest \in LatestAnswers, messages \in MessagesAnswers,
          count_raises \in BOOLEAN :
          StartTestSetup(latest, messages, count_raises)
    \/ StartSetupFailed
    \/ StartSchedule
    \/ \E all_positions \in ApiAnswers, fault \in Faults :
          StartCollect(all_positions, fault)
    \/ StartSetRunning
    \/ \E all_positions \in ApiAnswers, fault \in Faults :
          StartLoopCollect(all_positions, fault)
    \/ \E raises \in BOOLEAN : StartLoopCleanup(raises)
    \/ StartLoopSleep
    \/ StartReturn

\* the database file is the one of SpecDatabase: positions of the API
\* were stored by insert_positions
NextCollector ==
    \/ \E list \in ApiAnswers : InsertPositions(list, FALSE)
    \/ \E raises \in BOOLEAN : CleanupOldData(raises)
    \/ Tick
    \/ \E all_positions \in ApiAnswers, fault \in Faults :
          RunOnce(all_positions, fault)
    \/ \E latest \in LatestAnswers, messages \in MessagesAnswers :
          TestConnectionCall(latest, messages)
    \/ \E latest \in LatestAnswers, messages \in MessagesAnswers,
          count_raises \in BOOLEAN :
          TestSetupCall(latest, messages, count_raises)
    \/ StopCall
    \/ SignalHandler
    \/ Start
    \/ StartWhileRunning
    \/ StartStep

SpecCollector == InitDatabase /\ [][NextCollector]_vars

\* the process of the "start" command: it makes a collector and calls
\* start(), and signals are delivered to it
NextDaemon ==
    \/ Start
    \/ StartStep
    \/ SignalHandler
    \/ Tick

\* the main thread keeps running: a statement of start() that can be
\* executed is executed
SpecCollectorLive ==
    InitDatabase /\ [][NextDaemon]_vars /\ WF_vars(StartStep)

----------------------------------------------------------------------------
(* Properties of collect_data, checked under SpecCollector *)

\* the step is a call of collect_data(), from run_once(), from start() or
\* from the schedule, in which the API answers all_positions and the call
\* named by fault raises
CollectCall(all_positions, fault) ==
    \/ RunOnce(all_positions, fault)
    \/ StartCollect(all_positions, fault)
    \/ StartLoopCollect(all_positions, fault)

\* the step is a call of collect_data()
CollectStep ==
    /\ ret'.op = "collect_data"
    /\ CollectCall(ret'.args.all_positions, ret'.args.fault)

\* of the call made in the step: the answer of the API, the call that
\* raises, the arguments of its insert_positions calls, the error it logged
Answer == ret'.args.all_positions
Fault == ret'.args.fault
Calls == ret'.value.calls
Logged == ret'.value.logged

\* the greatest instant stored in the table before the step
LatestStored ==
    CHOOSE t \in Stamps :
        /\ \E r \in positions : r.timestamp.digits = t
        /\ \A r \in positions : r.timestamp.digits <= t

\* the positions of the answer stamped after the instant t, in the order of
\* the answer
After(t) == SelectSeq(Answer, LAMBDA p : p.timestamp.t > t)

\* C22: a collect_data call on a database that holds a position calls
\* insert_positions at most once, with exactly the positions of the API's
\* answer whose timestamp is strictly greater than the latest stored
\* timestamp, in the order of the answer; it makes that call whenever there
\* is such a position and the database and the API raise nothing before
\* it; and every row the call adds is one of these positions.
C22_OnlyNewerInserted ==
    [][(CollectStep /\ positions # {}) =>
          /\ Len(Calls) <= 1
          /\ \A i \in 1..Len(Calls) : Calls[i] = After(LatestStored)
          /\ (After(LatestStored) # <<>>
              /\ Fault \notin {"get_latest_position", "get_messages"})
                => Calls = <<After(LatestStored)>>
          /\ \A r \in positions' \ positions :
                /\ r.timestamp.digits > LatestStored
                /\ \E i \in 1..Len(Answer) : r = Row(Answer[i])]_vars

\* a cycle was handed an answer with a position older than, one as old as
\* and one newer than the latest stored one, and stored the newer one only
C22_Witness ==
    /\ ret.op = "collect_data"
    /\ ret.value.logged = NoError
    /\ Len(ret.args.all_positions) = 2
    /\ LET first == ret.args.all_positions[1]
           second == ret.args.all_positions[2]
       IN /\ first.timestamp.t < second.timestamp.t
          /\ ret.value.calls = <<(<<second>>)>>
          /\ Row(first) \in positions
          /\ Row(second) \in positions

\* C23: a collect_data call in which nothing raises, on a database that
\* holds a position, whose API answer has no position newer than the latest
\* stored one, calls insert_positions once, with the empty list.
C23_EmptyListInserted ==
    [][(CollectStep /\ positions # {} /\ Fault = "none"
        /\ After(LatestStored) = <<>>)
          => Calls = <<(<<>>)>>]_vars

----------------------------------------------------------------------------
(* Properties of SpotTrackerAPI.test_connection, checked under *)
(* SpecCollector *)

\* the number of get_messages requests of the last test_connection call
MessagesRequests ==
    Cardinality({i \in 1..Len(ret.value.requests) :
                    ret.value.requests[i] = "get_messages"})

\* C24: test_connection raises nothing; when get_latest_position yields a
\* position it returns True and makes no get_messages request; when
\* get_latest_position yields None it makes exactly one get_messages
\* request and returns True if that request raises nothing; it returns
\* False when get_latest_position or get_messages raises.
C24_TestConnectionNeverRaises ==
    ret.op = "test_connection" =>
        /\ ret.raised = NoError
        /\ ret.value.connected \in BOOLEAN
        /\ ret.args.latest = "position" =>
              ret.value.connected /\ MessagesRequests = 0
        /\ ret.args.latest = "none" => MessagesRequests = 1
        /\ (ret.args.latest = "none" /\ ret.args.messages = "list") =>
              ret.value.connected
        /\ (ret.args.latest = "raises"
            \/ (ret.args.latest = "none" /\ ret.args.messages = "raises"))
              => ~ret.value.connected

\* get_latest_position has yielded None, get_messages has raised and
\* test_connection has returned False
C24_Witness ==
    /\ ret.op = "test_connection"
    /\ ret.raised = NoError
    /\ ret.args.latest = "none"
    /\ ret.args.messages = "raises"
    /\ ret.value.connected = FALSE
    /\ ret.value.requests = <<"get_latest_position", "get_messages">>

----------------------------------------------------------------------------
(* Properties of the positions table, checked under SpecDatabase *)

\* no two rows of the table have the same asset_id and timestamp
UniqueKeys(table) == \A r \in table : \A q \in table : SameKey(r, q) => r = q

\* the step is the insert_position call whose outcome is in ret
InsertPositionStep ==
    /\ ret'.op = "insert_position"
    /\ InsertPosition(ret'.args.position, ret'.raised # NoError)

\* the step is the insert_positions call whose outcome is in ret
InsertPositionsStep ==
    /\ ret'.op = "insert_positions"
    /\ InsertPositions(ret'.args.list, ret'.raised # NoError)

\* the number of rows the step adds
RowsAdded == Cardinality(positions' \ positions)

\* C25: the table never holds two rows with the same asset_id and
\* timestamp; an insert_position call leaves every existing row as it was,
\* returns True exactly when it added a row, and returns False when a row
\* with the position's asset_id and timestamp existed; an insert_positions
\* call leaves every existing row as it was and returns the number of rows
\* it added; a call that raises adds nothing.
C25_OneRowPerKey ==
    [][/\ UniqueKeys(positions')
       /\ InsertPositionStep =>
            /\ positions \subseteq positions'
            /\ IF ret'.raised # NoError THEN RowsAdded = 0
               ELSE /\ ret'.value.inserted <=> RowsAdded = 1
                    /\ ~ret'.value.inserted <=> RowsAdded = 0
                    /\ (\E r \in positions :
                           SameKey(r, Row(ret'.args.position)))
                          => ~ret'.value.inserted
       /\ InsertPositionsStep =>
            /\ positions \subseteq positions'
            /\ IF ret'.raised # NoError THEN RowsAdded = 0
               ELSE ret'.value.inserted_count = RowsAdded]_vars

\* insert_positions was handed two positions of one asset and timestamp
\* with different latitudes, stored the first and counted one row
C25_Witness ==
    /\ ret.op = "insert_positions"
    /\ ret.raised = NoError
    /\ Len(ret.args.list) = 2
    /\ ret.args.list[1] # ret.args.list[2]
    /\ SameKey(Row(ret.args.list[1]), Row(ret.args.list[2]))
    /\ ret.value.inserted_count = 1
    /\ Row(ret.args.list[1]) \in positions
    /\ Row(ret.args.list[2]) \notin positions

----------------------------------------------------------------------------
(* Properties of a collection cycle and of last_collection, checked under *)
(* SpecCollector *)

\* C26: a collect_data call on an empty database in which neither the
\* database nor the API raises logs no error, stores every position of the
\* API's answer that is newer than now minus 24 hours and sets
\* last_collection to now.
C26_EmptyDatabaseCycle ==
    [][(CollectStep /\ positions = {} /\ Fault = "none") =>
          /\ Logged = NoError
          /\ \A i \in 1..Len(Answer) :
                Answer[i].timestamp.t > clock - DayTicks
                   => Row(Answer[i]) \in positions'
          /\ last_collection' = Some(Naive(clock))]_vars

\* C27: a collect_data call raises nothing; when it logs an error of the
\* database or the API, last_collection is what it was before the call, and
\* when it logs none, last_collection is the time of the call.
C27_LastCollectionOnSuccessOnly ==
    [][CollectStep =>
          /\ ret'.raised = NoError
          /\ IF Logged = NoError
             THEN last_collection' = Some(Naive(clock))
             ELSE last_collection' = last_collection]_vars

----------------------------------------------------------------------------
(* Properties of start() and stop(), checked under SpecCollector *)

\* the step is a stop() call, made by the owner or by the signal handler
StopStep == StopCall \/ SignalHandler

\* the step is a start() call that finds the collector running and returns
StartAlreadyRunning ==
    /\ running
    /\ ret'.op = "start"
    /\ StartWhileRunning

\* C28: a start() call goes on to test_setup only when the collector is
\* not running; jobs are put on the schedule, and they are the collection
\* and the cleanup job, only after test_setup has returned True in that
\* call; running becomes true only after that, past the initial cycle; when
\* test_setup returns False, and when the collector is already running,
\* start() returns leaving the schedule, the database, last_collection and
\* running as they were; a stop() call on a running collector leaves
\* running false and the schedule empty.
C28_StartStopGuards ==
    [][/\ (pc' = "test_setup" /\ pc # "test_setup") =>
            pc = "idle" /\ ~running
       /\ (pc = "test_setup" /\ pc' # "test_setup") =>
            /\ ret'.op = "test_setup"
            /\ pc' = IF ret'.value.ok THEN "schedule" ELSE "setup_failed"
       /\ jobs' # jobs =>
            \/ pc = "schedule" /\ pc' = "collect"
                  /\ jobs' = jobs \o ScheduledJobs
            \/ running /\ StopStep
       /\ (running' /\ ~running) =>
            /\ pc = "set_running"
            /\ \A i \in 1..Len(ScheduledJobs) :
                  \E k \in 1..Len(jobs) : jobs[k] = ScheduledJobs[i]
       /\ pc = "set_running" => pc' = "set_running" \/ running'
       /\ (pc = "setup_failed" \/ StartAlreadyRunning) =>
            UNCHANGED <<jobs, positions, last_collection, running>>
       /\ (pc = "setup_failed" /\ pc' # pc) =>
            pc' = "idle" /\ ret'.op = "start"
       /\ (running /\ StopStep) => ~running' /\ jobs' = <<>>]_vars

\* a collector that was started and ran has been stopped by a signal: the
\* loop has not yet seen it
C28_Witness ==
    /\ pc = "loop"
    /\ signalled
    /\ ~running
    /\ jobs = <<>>
    /\ last_collection.present

----------------------------------------------------------------------------
(* Shutdown by signal, checked under SpecCollectorLive *)

\* C29: once a SIGINT or SIGTERM has been delivered during a start() call,
\* at any statement of it, the call eventually returns, with running false
\* and the schedule empty.
C29_SignalStopsCollector ==
    (signalled /\ pc # "idle") ~> (pc = "idle" /\ ~running /\ jobs = <<>>)

\* C29, for a signal delivered while the loop runs: the stop() it calls
\* finds running true, and start() returns.
C29_SignalInLoopStops ==
    (pc = "loop" /\ ~running) ~> (pc = "idle" /\ ~running /\ jobs = <<>>)

====
